---- MODULE Spec2Model ----
(***************************************************************************)
(* Model of the Zotero Web API import of obsidian-zotero-integration:      *)
(*   - the collection path resolver, buildCollectionsWithFullPath          *)
(*     (webapi/collections.ts, here src/unnamed/part_003);                 *)
(*   - the import orchestrator, runWebApiImport (src/unnamed/part_002).    *)
(* Strings that the code concatenates are sequences of tokens, so that     *)
(* `${parentPath}/${info.name}` is a real concatenation.                   *)
(***************************************************************************)
EXTENDS Integers, Sequences, FiniteSets, TLC

(***************************************************************************)
(* Bounds of the model.                                                    *)
(***************************************************************************)
\* longest collectionKeys array handed to one call of the resolver
MaxInput == 2
\* deepest chain of suspended buildPath frames the model follows
MaxDepth == 4
\* number of runs of runWebApiImport in one behaviour; the clock is the
\* number of the run
MaxRuns == 3
\* number of edits of one item's remote record
MaxVer == 1

(***************************************************************************)
(* The remote library's collections.                                       *)
(***************************************************************************)
Keys == {"A", "B", "C"}
\* a falsy entry of a collectionKeys array ('' / null / undefined)
EmptyKey == ""
\* parentCollection of a top-level collection (null, false or absent)
NoParent == "none"
\* data.name absent in the response
NoName == "noname"
Slash == "/"
\* the two resolver invocations that may be in progress at once
Invs == {1, 2}

VARIABLES
  parent,          \* remote data: parentCollection of every collection
  rpc,             \* [Invs -> position of the invocation]
  collectionKeys,  \* [Invs -> argument of the call]
  uniqueKeys,      \* [Invs -> line 81]
  idx,             \* [Invs -> index of the for-loop of line 84 into uniqueKeys]
  cache,           \* [Invs -> Map key -> CollectionInfo] (line 46)
  inFlight,        \* [Invs -> keys of the inFlight Map] (line 47)
  requests,        \* [Invs -> [Keys -> outstanding remote requests]]
  loopInfo,        \* [Invs -> info of line 85]
  cur,             \* [Invs -> key of the running buildPath frame]
  visiting,        \* [Invs -> the visiting Set of line 86]
  stack,           \* [Invs -> infos of the buildPath frames suspended at line 77]
  ret,             \* [Invs -> value returned by the last buildPath frame]
  info,            \* [Invs -> info of line 73 in the running buildPath frame]
  results,         \* [Invs -> results array]
  callFetches,     \* [Invs -> [Keys -> remote requests issued by the current call]]
  nFetch,          \* [Keys -> remote requests issued by all calls]
  outcome,         \* [Invs -> [Keys -> how the request of the current call
                   \* for the key settled: "ok", "failed", or "" not yet]]
  overlapped       \* whether a call began while another was in progress

VARIABLES
  settings,        \* ZoteroConnectorSettings, and the secret store's key
  formatArg,       \* the optional format argument of runWebApiImport
  remote,          \* [Items -> version of the remote record]
  store,           \* the vault: path -> document
  dirs,            \* paths whose parent directory mkMDDir has made
  openedFiles,     \* documents the current run opened in the workspace
  ipc,             \* position of runWebApiImport
  loc,             \* the local variables of runWebApiImport
  loading,         \* the LoadingModal: "none", "open" or "closed"
  closeCount,      \* calls of modal.close() in the current run
  notices,         \* the Notices shown by the current run
  exit,            \* how the current run left the function
  runs,            \* runs started so far
  startStore,      \* the vault when the current run began
  prev,            \* what the previous run did
  changed,         \* whether the remote record or a document was edited
                   \* since the previous run
  events,          \* what the current run did: remote calls issued, prompts
                   \* shown
  openFailed       \* whether openFile rejected in the current run

VARIABLES
  npc,             \* which function was applied last
  rawHit,          \* an element of the search response
  hit,             \* the element of webApiSearchItems' result for it
  response,        \* the response webApiGetItem received
  detailOut,       \* what webApiGetItem returned for it
  builtFor,        \* the lastImportDate buildWebApiTemplateData was given
  templateOut      \* what buildWebApiTemplateData returned for detailOut

VARIABLES
  spc,             \* "prompted" while a promise of
                   \* promptForWebApiItemSelection is awaited, else "idle"
  items,           \* the items the modal was given
  shown,           \* whether the modal is open
  resolved,        \* the modal's field of line 76
  promise,         \* the promise of line 150: its state and its value
  timers,          \* callbacks of window.setTimeout not yet run
  task,            \* what the host has still to call in the running task
  picked,          \* the item the user picked in the modal, "" when none
  calls,           \* calls so far of resolve, of reject and of the timer's
                   \* callback
  prompts          \* modals opened so far

svars == <<spc, items, shown, resolved, promise, timers, task, picked, calls,
           prompts>>

ivars == <<settings, formatArg, remote, store, dirs, openedFiles, ipc, loc,
           loading, closeCount, notices, exit, runs, startStore, prev,
           changed, events, openFailed>>

nvars == <<npc, rawHit, hit, response, detailOut, builtFor, templateOut>>

rvars == <<parent, rpc, collectionKeys, uniqueKeys, idx, cache, inFlight,
           requests, loopInfo, cur, visiting, stack, ret, info, results,
           callFetches, nFetch, outcome, overlapped>>

vars == <<rvars, ivars, nvars, svars>>

(***************************************************************************)
(* Helpers.                                                                *)
(***************************************************************************)
SeqsUpTo(S, n) == UNION {[1..m -> S] : m \in 0..n}

RECURSIVE FilterTruthy(_)
\* collectionKeys.filter((key) => !!key)
FilterTruthy(s) ==
  IF s = <<>> THEN <<>>
  ELSE IF Head(s) = EmptyKey THEN FilterTruthy(Tail(s))
       ELSE <<Head(s)>> \o FilterTruthy(Tail(s))

\* the name the remote holds for a collection; "C" has none
RemoteName(k) ==
  CASE k = "A" -> "alpha"
    [] k = "B" -> "beta"
    [] OTHER -> NoName

\* extractCollectionInfo(res, fallbackKey) on the response for key k
extractCollectionInfo(k) ==
  [key |-> k,
   name |-> IF RemoteName(k) = NoName THEN k ELSE RemoteName(k),
   parentCollection |-> parent[k]]

NoInfo == [key |-> EmptyKey, name |-> EmptyKey, parentCollection |-> NoParent]

EmptyMap == [k \in {} |-> NoInfo]

\* a getInfo that never finds the key in the cache
CacheHasNever(i, k) == FALSE

\* cache.has(key), line 50
CacheHas(i, k) == k \in DOMAIN cache[i]

\* inFlight.has(key), line 51
InFlightHas(i, k) == k \in inFlight[i]

\* a getInfo that forgets to register the pending promise
InFlightNotSet(i, k) == inFlight[i]

\* inFlight.set(key, pending), line 62
InFlightSet(i, k) == inFlight[i] \cup {k}

\* a .finally that leaves the entry in the map
InFlightKept(i, k) == inFlight[i]

\* inFlight.delete(key), lines 58-60
InFlightDelete(i, k) == inFlight[i] \ {k}

\* a buildPath without the cycle check
VisitingHasNever(i, k) == FALSE

\* visiting.has(key), line 70
VisitingHas(i, k) == k \in visiting[i]

\* a cycle check that closes the path with the collection's name
ClosingSegmentName(key) == <<extractCollectionInfo(key).name>>

\* `if (visiting.has(key)) return key`, line 70: the path segment that
\* closes a cycle
ClosingSegment(key) == <<key>>

\* the path built leaf first: `${info.name}/${parentPath}`
JoinPathLeafFirst(parentPath, name) == <<name, Slash>> \o parentPath

\* `${parentPath}/${info.name}`, line 78
JoinPath(parentPath, name) == parentPath \o <<Slash, name>>

\* what getInfo(key) does: answer from the cache, attach to the pending
\* promise, or issue the remote request
getInfo(i, k) ==
  IF CacheHas(i, k) THEN "hit"
  ELSE IF InFlightHas(i, k) THEN "attach"
  ELSE "issue"

Zeros == [k \in Keys |-> 0]

\* no request of the call has settled
NoOutcome == [k \in Keys |-> ""]

(***************************************************************************)
(* The resolver: buildCollectionsWithFullPath.                             *)
(***************************************************************************)
InProgress(i) == rpc[i] \notin {"idle", "returned", "threw"}

\* the state changes of one getInfo(key) call: lines 50-63
GetInfoEffect(i, k) ==
  IF getInfo(i, k) = "issue"
  THEN /\ requests' = [requests EXCEPT ![i][k] = @ + 1]
       /\ inFlight' = [inFlight EXCEPT ![i] = InFlightSet(i, k)]
       /\ callFetches' = [callFetches EXCEPT ![i][k] = @ + 1]
       /\ nFetch' = [nFetch EXCEPT ![k] = @ + 1]
  ELSE UNCHANGED <<requests, inFlight, callFetches, nFetch>>

\* a call of buildCollectionsWithFullPath(client, keys): lines 42-82
Call(i, keys) ==
  /\ rpc[i] = "idle"
  /\ overlapped' = (overlapped \/ \E j \in Invs \ {i} : InProgress(j))
  /\ collectionKeys' = [collectionKeys EXCEPT ![i] = keys]
  /\ uniqueKeys' = [uniqueKeys EXCEPT ![i] = FilterTruthy(keys)]
  /\ idx' = [idx EXCEPT ![i] = 1]
  /\ cache' = [cache EXCEPT ![i] = EmptyMap]
  /\ inFlight' = [inFlight EXCEPT ![i] = {}]
  /\ requests' = [requests EXCEPT ![i] = Zeros]
  /\ callFetches' = [callFetches EXCEPT ![i] = Zeros]
  /\ results' = [results EXCEPT ![i] = <<>>]
  /\ loopInfo' = [loopInfo EXCEPT ![i] = NoInfo]
  /\ info' = [info EXCEPT ![i] = NoInfo]
  /\ cur' = [cur EXCEPT ![i] = EmptyKey]
  /\ visiting' = [visiting EXCEPT ![i] = {}]
  /\ stack' = [stack EXCEPT ![i] = <<>>]
  /\ ret' = [ret EXCEPT ![i] = <<>>]
  /\ rpc' = [rpc EXCEPT ![i] = "loop"]
  /\ outcome' = [outcome EXCEPT ![i] = NoOutcome]
  /\ UNCHANGED <<parent, nFetch>>
  /\ UNCHANGED ivars
  /\ UNCHANGED nvars
  /\ UNCHANGED svars

\* line 85, `await getInfo(key)` at the head of the for-loop
LoopGetInfo(i) ==
  /\ rpc[i] = "loop"
  /\ idx[i] <= Len(uniqueKeys[i])
  /\ LET k == uniqueKeys[i][idx[i]] IN
       /\ GetInfoEffect(i, k)
       /\ IF getInfo(i, k) = "hit"
          THEN /\ loopInfo' = [loopInfo EXCEPT ![i] = cache[i][k]]
               /\ cur' = [cur EXCEPT ![i] = k]
               /\ visiting' = [visiting EXCEPT ![i] = {}]
               /\ stack' = [stack EXCEPT ![i] = <<>>]
               /\ rpc' = [rpc EXCEPT ![i] = "bpEnter"]
          ELSE /\ rpc' = [rpc EXCEPT ![i] = "awaitLoop"]
               /\ UNCHANGED <<loopInfo, cur, visiting, stack>>
  /\ UNCHANGED <<parent, collectionKeys, uniqueKeys, idx, cache, ret, info,
                 results, overlapped>>
  /\ UNCHANGED outcome
  /\ UNCHANGED ivars
  /\ UNCHANGED nvars
  /\ UNCHANGED svars

\* line 94, the loop is over
Return(i) ==
  /\ rpc[i] = "loop"
  /\ idx[i] > Len(uniqueKeys[i])
  /\ rpc' = [rpc EXCEPT ![i] = "returned"]
  /\ UNCHANGED <<parent, collectionKeys, uniqueKeys, idx, cache, inFlight,
                 requests, loopInfo, cur, visiting, stack, ret, info, results,
                 callFetches, nFetch, overlapped>>
  /\ UNCHANGED outcome
  /\ UNCHANGED ivars
  /\ UNCHANGED nvars
  /\ UNCHANGED svars

\* the remote answers a request for k: .then (lines 54-57), .finally
\* (lines 58-60), and the awaiting continuation takes the value
FetchOk(i, k) ==
  /\ requests[i][k] > 0
  /\ requests' = [requests EXCEPT ![i][k] = @ - 1]
  /\ cache' = [cache EXCEPT ![i] = (k :> extractCollectionInfo(k)) @@ @]
  /\ inFlight' = [inFlight EXCEPT ![i] = InFlightDelete(i, k)]
  /\ IF rpc[i] = "awaitLoop" /\ uniqueKeys[i][idx[i]] = k
     THEN /\ loopInfo' = [loopInfo EXCEPT ![i] = extractCollectionInfo(k)]
          /\ cur' = [cur EXCEPT ![i] = k]
          /\ visiting' = [visiting EXCEPT ![i] = {}]
          /\ stack' = [stack EXCEPT ![i] = <<>>]
          /\ rpc' = [rpc EXCEPT ![i] = "bpEnter"]
          /\ UNCHANGED info
     ELSE IF rpc[i] = "bpAwait" /\ cur[i] = k
     THEN /\ info' = [info EXCEPT ![i] = extractCollectionInfo(k)]
          /\ rpc' = [rpc EXCEPT ![i] = "bpGot"]
          /\ UNCHANGED <<loopInfo, cur, visiting, stack>>
     ELSE UNCHANGED <<loopInfo, cur, visiting, stack, info, rpc>>
  /\ outcome' = [outcome EXCEPT ![i][k] = "ok"]
  /\ UNCHANGED <<parent, collectionKeys, uniqueKeys, idx, ret, results,
                 callFetches, nFetch, overlapped>>
  /\ UNCHANGED ivars
  /\ UNCHANGED nvars
  /\ UNCHANGED svars

\* the request for k fails: nothing is cached, .finally (lines 58-60) runs
\* and the rejection propagates out of buildCollectionsWithFullPath
FetchFail(i, k) ==
  /\ requests[i][k] > 0
  /\ requests' = [requests EXCEPT ![i][k] = @ - 1]
  /\ inFlight' = [inFlight EXCEPT ![i] = InFlightDelete(i, k)]
  /\ IF \/ rpc[i] = "awaitLoop" /\ uniqueKeys[i][idx[i]] = k
        \/ rpc[i] = "bpAwait" /\ cur[i] = k
     THEN rpc' = [rpc EXCEPT ![i] = "threw"]
     ELSE UNCHANGED rpc
  /\ outcome' = [outcome EXCEPT ![i][k] = "failed"]
  /\ UNCHANGED <<parent, collectionKeys, uniqueKeys, idx, cache, loopInfo, cur,
                 visiting, stack, ret, info, results, callFetches, nFetch,
                 overlapped>>
  /\ UNCHANGED ivars
  /\ UNCHANGED nvars
  /\ UNCHANGED svars

\* buildPath(key, visiting) up to its first await: lines 70-73
BpEnter(i) ==
  /\ rpc[i] = "bpEnter"
  /\ IF VisitingHas(i, cur[i])
     THEN /\ ret' = [ret EXCEPT ![i] = ClosingSegment(cur[i])]
          /\ rpc' = [rpc EXCEPT ![i] = "bpReturn"]
          /\ UNCHANGED <<visiting, info, requests, inFlight, callFetches,
                         nFetch>>
     ELSE /\ visiting' = [visiting EXCEPT ![i] = @ \cup {cur[i]}]
          /\ GetInfoEffect(i, cur[i])
          /\ IF getInfo(i, cur[i]) = "hit"
             THEN /\ info' = [info EXCEPT ![i] = cache[i][cur[i]]]
                  /\ rpc' = [rpc EXCEPT ![i] = "bpGot"]
             ELSE /\ rpc' = [rpc EXCEPT ![i] = "bpAwait"]
                  /\ UNCHANGED info
          /\ UNCHANGED ret
  /\ UNCHANGED <<parent, collectionKeys, uniqueKeys, idx, cache, loopInfo, cur,
                 stack, results, overlapped>>
  /\ UNCHANGED outcome
  /\ UNCHANGED ivars
  /\ UNCHANGED nvars
  /\ UNCHANGED svars

\* buildPath after `await getInfo(key)`: lines 74-77
BpGot(i) ==
  /\ rpc[i] = "bpGot"
  /\ IF info[i].parentCollection = NoParent
     THEN /\ ret' = [ret EXCEPT ![i] = <<info[i].name>>]
          /\ rpc' = [rpc EXCEPT ![i] = "bpReturn"]
          /\ UNCHANGED <<stack, cur>>
     ELSE /\ Len(stack[i]) < MaxDepth
          /\ stack' = [stack EXCEPT ![i] = Append(@, info[i])]
          /\ cur' = [cur EXCEPT ![i] = info[i].parentCollection]
          /\ rpc' = [rpc EXCEPT ![i] = "bpEnter"]
          /\ UNCHANGED ret
  /\ UNCHANGED <<parent, collectionKeys, uniqueKeys, idx, cache, inFlight,
                 requests, loopInfo, visiting, info, results, callFetches,
                 nFetch, overlapped>>
  /\ UNCHANGED outcome
  /\ UNCHANGED ivars
  /\ UNCHANGED nvars
  /\ UNCHANGED svars

\* a suspended frame resumes at line 78: `${parentPath}/${info.name}`
BpReturn(i) ==
  /\ rpc[i] = "bpReturn"
  /\ stack[i] # <<>>
  /\ LET frame == stack[i][Len(stack[i])] IN
       ret' = [ret EXCEPT ![i] = JoinPath(@, frame.name)]
  /\ stack' = [stack EXCEPT ![i] = SubSeq(@, 1, Len(@) - 1)]
  /\ UNCHANGED <<parent, rpc, collectionKeys, uniqueKeys, idx, cache, inFlight,
                 requests, loopInfo, cur, visiting, info, results, callFetches,
                 nFetch, overlapped>>
  /\ UNCHANGED outcome
  /\ UNCHANGED ivars
  /\ UNCHANGED nvars
  /\ UNCHANGED svars

\* lines 86-91: the outermost buildPath has returned, push the result
PushResult(i) ==
  /\ rpc[i] = "bpReturn"
  /\ stack[i] = <<>>
  /\ results' = [results EXCEPT ![i] =
                   Append(@, [key |-> loopInfo[i].key,
                              name |-> loopInfo[i].name,
                              fullPath |-> ret[i]])]
  /\ idx' = [idx EXCEPT ![i] = @ + 1]
  /\ rpc' = [rpc EXCEPT ![i] = "loop"]
  /\ UNCHANGED <<parent, collectionKeys, uniqueKeys, cache, inFlight, requests,
                 loopInfo, cur, visiting, stack, ret, info, callFetches,
                 nFetch, overlapped>>
  /\ UNCHANGED outcome
  /\ UNCHANGED ivars
  /\ UNCHANGED nvars
  /\ UNCHANGED svars

(***************************************************************************)
(* The import orchestrator: runWebApiImport.                               *)
(* The remote library holds two importable items and one attachment; the   *)
(* settings and the format argument are chosen at the start and stay.      *)
(* Edits of the remote record and of a document by the user happen between *)
(* two runs.                                                               *)
(***************************************************************************)
Items == {"I1", "I2"}
AttachmentItem == "ATT"
\* moment(0)
Epoch == 0
NoFormat == [name |-> "", tpl |-> "", path |-> ""]
\* the export formats of the model: what the template renders, and what its
\* outputPathTemplate reads
FmtPlain == [name |-> "Import #1", tpl |-> "plain", path |-> "byKey"]
FmtFirst == [name |-> "Literature", tpl |-> "firstAware", path |-> "byTitle"]
FmtOnce == [name |-> "Once", tpl |-> "onceOnly", path |-> "byDate"]
FmtNever == [name |-> "Never", tpl |-> "never", path |-> "byKey"]
\* annotation blocks a user may write into a document
Annots == {"my annotation"}
\* '' : no content, no annotations
EmptyContent == [title |-> "", first |-> "", ann |-> "", date |-> Epoch]
NoPath == [name |-> "", stamp |-> Epoch]

\* undefined, null
Absent == "undefined"
\* a value that `!`, `||` and `if` take for true
Truthy(v) == v \notin {Absent, ""}
\* a || b
Or(a, b) == IF Truthy(a) THEN a ELSE b

\* data.collections: absent, the collection keys as the remote holds them,
\* or after the resolution one CollectionWithPath for each of keys
NoCollections == [defined |-> FALSE, resolved |-> FALSE, keys |-> <<>>]
RawCollections(keys) == [defined |-> TRUE, resolved |-> FALSE, keys |-> keys]
ResolvedCollections(keys) ==
  [defined |-> TRUE, resolved |-> TRUE, keys |-> FilterTruthy(keys)]

\* the fields of an item's data that the import reads; citation_key is the
\* field 'citation-key'
NoData ==
  [title |-> "", citationKey |-> Absent, citation_key |-> Absent,
   collections |-> NoCollections]
NoDetail == [key |-> "", data |-> NoData]
NoResponse == [key |-> "", data |-> NoData, rawData |-> NoData]

\* lines 81-86 of webApiGetItem: a cite key field that data lacks is taken
\* from res.raw.data
BackfillCiteKeys(data, rawData) ==
  [data EXCEPT
     !.citationKey = IF ~Truthy(@) /\ Truthy(rawData.citationKey)
                     THEN rawData.citationKey ELSE @,
     !.citation_key = IF ~Truthy(@) /\ Truthy(rawData.citation_key)
                      THEN rawData.citation_key ELSE @]

\* rawData.collections ?? data.collections ?? [], line 87
collectionKeysOf(data, rawData) ==
  IF rawData.collections.defined THEN rawData.collections.keys
  ELSE IF data.collections.defined THEN data.collections.keys
  ELSE <<>>

\* lines 88-97: data.collections after the try block, the call of
\* buildCollectionsWithFullPath having returned ("ok") or thrown ("threw")
CollectionsAfter(data, keys, resolution) ==
  IF Len(keys) > 0 /\ resolution = "ok"
  THEN ResolvedCollections(keys)
  ELSE data.collections

\* webApiGetItem for a response with an item, lines 79-103
webApiGetItem(res, resolution) ==
  LET data == BackfillCiteKeys(res.data, res.rawData)
      keys == collectionKeysOf(res.data, res.rawData)
  IN [key |-> res.key,
      data |-> [data EXCEPT
                  !.collections = CollectionsAfter(data, keys, resolution)]]

\* an element of the search response: its own fields, and those of its data
\* object when it has one
NoHit == [key |-> "", citekey |-> Absent]
NoCiteKeys == [citationKey |-> Absent, citation_key |-> Absent]
NoRawHit == [key |-> "", hasData |-> FALSE, data |-> NoCiteKeys, top |-> NoCiteKeys]

\* a search that reads the camel-case fields only
searchCitekeyCamelOnly(item) ==
  LET data == IF item.hasData THEN item.data ELSE item.top
  IN Or(data.citationKey, item.top.citationKey)

\* `data.citationKey || data['citation-key'] || item.citationKey ||
\* item['citation-key']` with data = item.data ?? item, lines 45 and 54-58
searchCitekey(item) ==
  LET data == IF item.hasData THEN item.data ELSE item.top
  IN Or(Or(Or(data.citationKey, data.citation_key), item.top.citationKey),
        item.top.citation_key)

\* the mapping of webApiSearchItems, lines 44-62
webApiSearchItem(item) == [key |-> item.key, citekey |-> searchCitekey(item)]

\* a prompt closed by Cancel, Escape or from outside: promptForText lines
\* 34, 46 and 50-54
Dismissed == <<"Escape">>
\* null
NullTerm == <<>>

RECURSIVE TrimStart(_)
TrimStart(s) ==
  IF s # <<>> /\ Head(s) = " " THEN TrimStart(Tail(s)) ELSE s

RECURSIVE TrimEnd(_)
TrimEnd(s) ==
  IF s # <<>> /\ s[Len(s)] = " " THEN TrimEnd(SubSeq(s, 1, Len(s) - 1)) ELSE s

\* a prompt that hands the input on as typed
NoTrim(s) == s

\* input.value.trim(), lines 36 and 42; a string is the sequence of its
\* characters
Trim(s) == TrimEnd(TrimStart(s))

\* what promptForText resolves with: lines 28-54
promptForText(input) ==
  IF input = Dismissed THEN NullTerm
  ELSE LET value == Trim(input)
       IN IF Len(value) > 0 THEN value ELSE NullTerm

\* what the user may do with the search prompt: dismiss it, or type
\* nothing, blanks, or a term with or without blanks around it
PromptInputs ==
  {Dismissed, <<>>, <<" ">>, <<" ", " ">>, <<"z">>, <<" ", "z", " ">>}

BaseSettings ==
  [webApiEnabled |-> TRUE, webApiLibraryType |-> "user", webApiUserId |-> "u",
   webApiGroupId |-> "", apiKey |-> "secret",
   exportFormats |-> <<FmtOnce, FmtPlain>>, openNoteAfterImport |-> FALSE]

\* <<settings, format argument>> of the behaviours
Configurations ==
  {<<[BaseSettings EXCEPT !.webApiEnabled = FALSE], NoFormat>>,
   <<[BaseSettings EXCEPT !.webApiUserId = ""], NoFormat>>,
   <<[BaseSettings EXCEPT !.webApiLibraryType = "group"], NoFormat>>,
   <<[BaseSettings EXCEPT !.apiKey = ""], NoFormat>>}
  \cup
  {<<[BaseSettings EXCEPT !.exportFormats = <<>>], NoFormat>>,
   <<[BaseSettings EXCEPT !.exportFormats = <<>>,
                          !.openNoteAfterImport = TRUE], FmtFirst>>,
   <<BaseSettings, NoFormat>>,
   <<[BaseSettings EXCEPT !.openNoteAfterImport = TRUE], NoFormat>>,
   <<[BaseSettings EXCEPT !.exportFormats = <<FmtOnce>>], NoFormat>>,
   <<[BaseSettings EXCEPT !.exportFormats = <<FmtNever>>,
                          !.openNoteAfterImport = TRUE], NoFormat>>}

\* what a search may return: res.getData() of webApiSearchItems
SearchResultLists ==
  {<<>>, <<AttachmentItem>>, <<"I1">>, <<AttachmentItem, "I1">>, <<"I1", "I2">>}

itemType(k) == IF k = AttachmentItem THEN "attachment" ELSE "journalArticle"

\* data.title of an item's remote record at a version
Title(k, v) ==
  CASE k = "I1" /\ v = 0 -> "Alpha"
    [] k = "I1" -> "Alpha (2nd ed.)"
    [] k = "I2" /\ v = 0 -> "Beta"
    [] OTHER -> "Beta (2nd ed.)"

\* the response of the remote for item k at version v: item I1 is in
\* collection A
RemoteResponse(k, v) ==
  LET data == [title |-> Title(k, v),
               citationKey |-> Absent,
               citation_key |-> Absent,
               collections |-> IF k = "I1" THEN RawCollections(<<"A">>)
                               ELSE RawCollections(<<>>)]
  IN [key |-> k, data |-> data, rawData |-> data]

\* a search that presents everything it found
KeepAll(res) == res

RECURSIVE NotAttachment(_)
\* results.filter((item) => item.itemType !== 'attachment'), line 122
NotAttachment(res) ==
  IF res = <<>> THEN <<>>
  ELSE IF itemType(Head(res)) # "attachment"
       THEN <<Head(res)>> \o NotAttachment(Tail(res))
       ELSE NotAttachment(Tail(res))

\* lines 94-97
LibraryIdMissing(st) ==
  \/ st.webApiLibraryType = "user" /\ st.webApiUserId = ""
  \/ st.webApiLibraryType = "group" /\ st.webApiGroupId = ""

\* resolveWebApiImportFormat(settings, format), lines 25-35
resolveWebApiImportFormat(st, format) ==
  IF format # NoFormat THEN format
  ELSE IF Len(st.exportFormats) = 0 THEN NoFormat
  ELSE IF \E j \in 1..Len(st.exportFormats) :
            st.exportFormats[j].name = "Import #1"
       THEN st.exportFormats[CHOOSE j \in 1..Len(st.exportFormats) :
              /\ st.exportFormats[j].name = "Import #1"
              /\ \A h \in 1..(j - 1) : st.exportFormats[h].name # "Import #1"]
       ELSE st.exportFormats[1]

\* a first-import flag that also takes an early import date for the epoch
IsFirstImportEarly(lastImportDate) == lastImportDate <= Epoch + 1

\* isFirstImport: lastImportDate.valueOf() === 0, line 78
IsFirstImport(lastImportDate) == lastImportDate = Epoch

\* an object spread that keeps the fields of the object spread first
SpreadKeepsBase(base, over) == base @@ over

\* { ...base, ...over }: lines 58-60 and 74-76
Spread(base, over) == over @@ base

\* data.citationKey || data['citation-key'] || detail.key, line 56
templateCitekey(detail) ==
  Or(Or(detail.data.citationKey, detail.data.citation_key), detail.key)

\* applyBasicTemplates(sourcePath, templateData), line 81: leaves the fields
\* above as they are
applyBasicTemplates(data) == data

\* buildWebApiTemplateData(sourcePath, detail, settings, notes, lastImportDate),
\* lines 48-82: the fields of the template data that a template of the model
\* reads
buildWebApiTemplateData(detail, lastImportDate) ==
  LET data == detail.data
      citekey == templateCitekey(detail)
      item == Spread(data, [key |-> detail.key,
                            itemKey |-> detail.key,
                            citekey |-> citekey,
                            citationKey |-> citekey])
      templateData ==
        Spread(item, [lastImportDate |-> lastImportDate,
                      lastExportDate |-> lastImportDate,
                      isFirstImport |-> IsFirstImport(lastImportDate)])
  IN applyBasicTemplates(templateData)

\* the path data built against the time of the run instead of the epoch
PathImportDateNow == runs

\* the moment(0) of line 165
PathImportDate == Epoch

\* normalizePath(sanitizeFilePath(removeStartingSlash(renderTemplate(
\* sourcePath, outputPathTemplate, pathTemplateData)))), lines 167-177: the
\* path a format's outputPathTemplate gives for the template data
renderPath(format, data) ==
  CASE format.path = "byKey" -> [name |-> data.key, stamp |-> Epoch]
    [] format.path = "byTitle" -> [name |-> data.title, stamp |-> Epoch]
    [] OTHER -> [name |-> data.key, stamp |-> data.lastImportDate]

\* getExistingAnnotations(existingContent)
getExistingAnnotations(content) == content.ann

\* getLastExport(existingContent)
getLastExport(content) == content.date

\* an import that hands no annotations to the render step
ExistingAnnotationsDropped(existingFile, existingContent) == ""

\* lines 182-184
ExistingAnnotations(existingFile, existingContent) ==
  IF existingFile THEN getExistingAnnotations(existingContent) ELSE ""

\* lines 185-187
LastImportDate(existingFile, existingContent) ==
  IF existingFile THEN getLastExport(existingContent) ELSE Epoch

\* renderTemplates(params, PersistExtension.prepareTemplateData(templateData,
\* existingContent), existingAnnotations), lines 196-200, at time now: the
\* rendered record with the annotation block it was handed and the import
\* date; a "onceOnly" template renders nothing on a re-import, a "never"
\* template renders nothing at all
renderTemplates(format, data, existingAnnotations, now) ==
  IF format.tpl = "never" THEN EmptyContent
  ELSE IF format.tpl = "onceOnly" /\ ~data.isFirstImport THEN EmptyContent
  ELSE [title |-> data.title,
        first |-> IF format.tpl = "firstAware"
                  THEN (IF data.isFirstImport THEN "first import" ELSE "update")
                  ELSE "",
        ann |-> existingAnnotations,
        date |-> now]

InitLoc ==
  [input |-> NullTerm, term |-> NullTerm, results |-> <<>>,
   candidates |-> <<>>,
   resolvedFormat |-> NoFormat,
   selected |-> "", detail |-> NoDetail, markdownPath |-> NoPath,
   existingFile |-> FALSE, existingContent |-> EmptyContent,
   existingAnnotations |-> "", lastImportDate |-> Epoch,
   rendered |-> EmptyContent, modalOpen |-> FALSE]

NoPrev ==
  [ok |-> FALSE, item |-> "", title |-> "", path |-> NoPath,
   doc |-> EmptyContent, lastImportDate |-> Epoch]

\* a finally block that closes the modal whatever the flag says
FinallyClosesAlways == TRUE

\* `if (modalOpen)`, line 228
FinallyCloses == loc.modalOpen

\* new Notice(...) and leaving the try block through finally
Leave(how, notice) ==
  /\ exit' = how
  /\ notices' = IF notice = "" THEN notices ELSE Append(notices, notice)
  /\ ipc' = "finally"

\* an awaited call rejects: the catch block of lines 220-227, for an error
\* other than 'Selection cancelled.'
Throw ==
  /\ Leave("failed", "Web API search failed")
  /\ UNCHANGED <<settings, formatArg, remote, store, dirs, openedFiles, loc,
                 loading, closeCount, runs, startStore, prev, changed, events,
                 openFailed>>

\* runWebApiImport is called: lines 89-102
Start ==
  /\ ipc = "idle"
  /\ runs < MaxRuns
  /\ runs' = runs + 1
  /\ startStore' = store
  /\ loc' = InitLoc
  /\ loading' = "none"
  /\ closeCount' = 0
  /\ IF ~settings.webApiEnabled
     THEN /\ notices' = <<"Web API is disabled">>
          /\ exit' = "configuration"
          /\ ipc' = "done"
     ELSE IF LibraryIdMissing(settings)
     THEN /\ notices' = <<"Web API library ID is missing">>
          /\ exit' = "configuration"
          /\ ipc' = "done"
     ELSE /\ notices' = <<>>
          /\ exit' = ""
          /\ ipc' = "prompt"
  /\ events' = {}
  /\ openFailed' = FALSE
  /\ UNCHANGED <<settings, formatArg, remote, store, dirs, openedFiles, prev,
                 changed>>
  /\ UNCHANGED rvars
  /\ UNCHANGED nvars
  /\ UNCHANGED svars

\* the user answers the search prompt and promptForText resolves; then the
\* api key, the loading modal and the call of webApiSearchItems: lines
\* 102-121
PromptDone(input) ==
  /\ ipc = "prompt"
  /\ LET term == promptForText(input) IN
     IF term = NullTerm
     THEN /\ loc' = [loc EXCEPT !.input = input]
          /\ exit' = "no term"
          /\ ipc' = "done"
          /\ UNCHANGED <<notices, loading, events>>
     ELSE IF settings.apiKey = ""
     THEN /\ loc' = [loc EXCEPT !.input = input]
          /\ notices' = Append(notices, "Web API key is not set")
          /\ exit' = "configuration"
          /\ ipc' = "done"
          /\ UNCHANGED <<loading, events>>
     ELSE /\ loc' = [loc EXCEPT !.input = input, !.term = term,
                                !.modalOpen = TRUE]
          /\ loading' = "open"
          /\ events' = events \cup {"search"}
          /\ ipc' = "search"
          /\ UNCHANGED <<notices, exit>>
  /\ UNCHANGED <<settings, formatArg, remote, store, dirs, openedFiles,
                 closeCount, runs, startStore, prev, changed, openFailed>>
  /\ UNCHANGED rvars
  /\ UNCHANGED nvars
  /\ UNCHANGED svars

\* webApiSearchItems rejects: line 121 and the catch block
SearchFails ==
  /\ ipc = "search"
  /\ Throw
  /\ UNCHANGED rvars
  /\ UNCHANGED nvars
  /\ UNCHANGED svars

\* webApiSearchItems resolves with res: lines 121-135
SearchDone(res) ==
  /\ ipc = "search"
  /\ LET filtered == NotAttachment(res)
         resolvedFormat == resolveWebApiImportFormat(settings, formatArg)
     IN IF Len(filtered) = 0
        THEN /\ loc' = [loc EXCEPT !.input = NullTerm, !.term = NullTerm,
                                   !.results = res]
             /\ Leave("no items", "No items found")
             /\ UNCHANGED <<loading, closeCount, events>>
        ELSE /\ loading' = "closed"
             /\ closeCount' = closeCount + 1
             /\ IF resolvedFormat = NoFormat
                THEN /\ loc' = [loc EXCEPT !.modalOpen = FALSE,
                                           !.input = NullTerm,
                                           !.term = NullTerm]
                     /\ Leave("configuration", "No import format found")
                     /\ UNCHANGED events
                ELSE /\ loc' = [loc EXCEPT !.modalOpen = FALSE,
                                           !.input = NullTerm,
                                           !.term = NullTerm,
                                           !.results = res,
                                           !.candidates = filtered,
                                           !.resolvedFormat = resolvedFormat]
                     /\ events' = events \cup {"select prompt"}
                     /\ ipc' = "select"
                     /\ UNCHANGED <<exit, notices>>
  /\ UNCHANGED <<settings, formatArg, remote, store, dirs, openedFiles, runs,
                 startStore, prev, changed, openFailed>>
  /\ UNCHANGED rvars
  /\ UNCHANGED nvars
  /\ UNCHANGED svars

\* promptForWebApiItemSelection resolves with the chosen candidate: line 137
Select(j) ==
  /\ ipc = "select"
  /\ j \in 1..Len(loc.candidates)
  /\ loc' = [loc EXCEPT !.selected = loc.candidates[j], !.results = <<>>,
                        !.candidates = <<>>]
  /\ events' = events \cup {"item"}
  /\ ipc' = "getItem"
  /\ UNCHANGED <<settings, formatArg, remote, store, dirs, openedFiles,
                 loading, closeCount, notices, exit, runs, startStore, prev,
                 changed, openFailed>>
  /\ UNCHANGED rvars
  /\ UNCHANGED nvars
  /\ UNCHANGED svars

\* a catch block that reports the cancellation like any other error
CancelNoticeFailure == "Web API search failed"

\* `if (e instanceof Error && e.message === 'Selection cancelled.') return`,
\* lines 221-223: no Notice
CancelNotice == ""

\* promptForWebApiItemSelection rejects with 'Selection cancelled.': the
\* catch block returns without a Notice, lines 221-223
Cancel ==
  /\ ipc = "select"
  /\ Leave("cancelled", CancelNotice)
  /\ UNCHANGED <<settings, formatArg, remote, store, dirs, openedFiles, loc,
                 loading, closeCount, runs, startStore, prev, changed, events,
                 openFailed>>
  /\ UNCHANGED rvars
  /\ UNCHANGED nvars
  /\ UNCHANGED svars

\* webApiGetItem rejects, resolves with null or with the detail record, the
\* resolution of its collections having returned or thrown; then the call
\* of webApiGetNotes: lines 143-149
GetItem ==
  /\ ipc = "getItem"
  /\ \/ Throw
     \/ /\ Leave("no detail", "Failed to fetch selected item")
        /\ UNCHANGED <<settings, formatArg, remote, store, dirs, openedFiles,
                       loc, loading, closeCount, runs, startStore, prev,
                       changed, events, openFailed>>
     \/ /\ \E resolution \in {"ok", "threw"} :
             LET res == RemoteResponse(loc.selected, remote[loc.selected])
                 keys == collectionKeysOf(res.data, res.rawData)
             IN /\ loc' = [loc EXCEPT !.detail = webApiGetItem(res, resolution)]
                /\ events' = events \cup {"notes"} \cup
                     (IF Len(keys) = 0 THEN {}
                      ELSE IF resolution = "ok" THEN {"collections"}
                      ELSE {"collections failed"})
        /\ ipc' = "path"
        /\ UNCHANGED <<settings, formatArg, remote, store, dirs, openedFiles,
                       loading, closeCount, notices, exit, runs, startStore,
                       prev, changed, openFailed>>
  /\ UNCHANGED rvars
  /\ UNCHANGED nvars
  /\ UNCHANGED svars

\* webApiGetNotes, the path template data and the target path: lines 149-178
ComputePath ==
  /\ ipc = "path"
  /\ \/ Throw
     \/ /\ LET pathTemplateData ==
                 buildWebApiTemplateData(loc.detail, PathImportDate)
               markdownPath == renderPath(loc.resolvedFormat, pathTemplateData)
           IN loc' = [loc EXCEPT !.markdownPath = markdownPath,
                                 !.existingFile = markdownPath \in DOMAIN store]
        /\ ipc' = "read"
        /\ UNCHANGED <<settings, formatArg, remote, store, dirs, openedFiles,
                       loading, closeCount, notices, exit, runs, startStore,
                       prev, changed, events, openFailed>>
  /\ UNCHANGED rvars
  /\ UNCHANGED nvars
  /\ UNCHANGED svars

\* lines 179-187: the existing document, its annotations, its import date
ReadExisting ==
  /\ ipc = "read"
  /\ \/ loc.existingFile /\ Throw
     \/ /\ LET existingContent ==
                 IF loc.existingFile THEN store[loc.markdownPath]
                 ELSE EmptyContent
           IN loc' = [loc EXCEPT
                !.existingContent = existingContent,
                !.existingAnnotations =
                   ExistingAnnotations(loc.existingFile, existingContent),
                !.lastImportDate =
                   LastImportDate(loc.existingFile, existingContent)]
        /\ ipc' = "render"
        /\ UNCHANGED <<settings, formatArg, remote, store, dirs, openedFiles,
                       loading, closeCount, notices, exit, runs, startStore,
                       prev, changed, events, openFailed>>
  /\ UNCHANGED rvars
  /\ UNCHANGED nvars
  /\ UNCHANGED svars

\* a run that goes on to the write whatever the render gave
RenderedNothingNever(rendered) == FALSE

\* `!rendered`, line 202
RenderedNothing(rendered) == rendered = EmptyContent

\* lines 189-204: the template data against the last import date, the render
Render ==
  /\ ipc = "render"
  /\ \/ Throw
     \/ /\ LET templateData ==
                 buildWebApiTemplateData(loc.detail, loc.lastImportDate)
               rendered ==
                 renderTemplates(loc.resolvedFormat, templateData,
                                 loc.existingAnnotations, runs)
           IN /\ loc' = [loc EXCEPT !.rendered = rendered]
              /\ IF RenderedNothing(rendered)
                 THEN Leave("nothing rendered", "")
                 ELSE /\ ipc' = "write"
                      /\ UNCHANGED <<exit, notices>>
        /\ events' = events \cup {"render"}
        /\ UNCHANGED <<settings, formatArg, remote, store, dirs, openedFiles,
                       loading, closeCount, runs, startStore, prev, changed,
                       openFailed>>
  /\ UNCHANGED rvars
  /\ UNCHANGED nvars
  /\ UNCHANGED svars

\* lines 206-211: vault.modify, or mkMDDir and vault.create
Write ==
  /\ ipc = "write"
  /\ \/ Throw
     \/ /\ ~loc.existingFile
        /\ dirs' = dirs \cup {loc.markdownPath}
        /\ events' = events \cup {"mkdir"}
        /\ Leave("failed", "Web API search failed")
        /\ UNCHANGED <<settings, formatArg, remote, store, openedFiles, loc,
                       loading, closeCount, runs, startStore, prev, changed,
                       openFailed>>
     \/ /\ store' = (loc.markdownPath :> loc.rendered) @@ store
        /\ dirs' = IF loc.existingFile THEN dirs
                   ELSE dirs \cup {loc.markdownPath}
        /\ events' = IF loc.existingFile THEN events \cup {"modify"}
                     ELSE events \cup {"mkdir", "create"}
        /\ ipc' = "open"
        /\ UNCHANGED <<settings, formatArg, remote, openedFiles, loc, loading,
                       closeCount, notices, exit, runs, startStore, prev,
                       changed, openFailed>>
  /\ UNCHANGED rvars
  /\ UNCHANGED nvars
  /\ UNCHANGED svars

\* lines 213-219: open the note when the setting asks for it, then the
\* Notice of success
OpenNote ==
  /\ ipc = "open"
  /\ \/ /\ settings.openNoteAfterImport
        /\ openFailed' = TRUE
        /\ Leave("failed", "Web API search failed")
        /\ UNCHANGED <<settings, formatArg, remote, store, dirs, openedFiles,
                       loc, loading, closeCount, runs, startStore, prev,
                       changed, events>>
     \/ /\ openedFiles' = IF settings.openNoteAfterImport
                          THEN openedFiles \cup {loc.markdownPath}
                          ELSE openedFiles
        /\ Leave("imported", "Imported 1 item")
        /\ UNCHANGED <<settings, formatArg, remote, store, dirs, loc, loading,
                       closeCount, runs, startStore, prev, changed, events,
                       openFailed>>
  /\ UNCHANGED rvars
  /\ UNCHANGED nvars
  /\ UNCHANGED svars

\* lines 227-231
Finally ==
  /\ ipc = "finally"
  /\ IF FinallyCloses
     THEN /\ loading' = "closed"
          /\ closeCount' = closeCount + 1
     ELSE UNCHANGED <<loading, closeCount>>
  /\ ipc' = "done"
  /\ UNCHANGED <<settings, formatArg, remote, store, dirs, openedFiles, loc,
                 notices, exit, runs, startStore, prev, changed, events,
                 openFailed>>
  /\ UNCHANGED rvars
  /\ UNCHANGED nvars
  /\ UNCHANGED svars

\* the run went through to the end: it wrote the document, or the template
\* rendered nothing
Completed == exit \in {"imported", "nothing rendered"}

\* runWebApiImport has returned and its locals are gone; the next run may
\* start. prev keeps what the run computed
Returned ==
  /\ ipc = "done"
  /\ ipc' = "idle"
  /\ prev' = IF loc.markdownPath = NoPath THEN NoPrev
             ELSE [ok |-> Completed,
                   item |-> loc.detail.key,
                   title |-> loc.detail.data.title,
                   path |-> loc.markdownPath,
                   doc |-> IF Completed /\ loc.markdownPath \in DOMAIN store
                           THEN store[loc.markdownPath]
                           ELSE EmptyContent,
                   lastImportDate |-> IF Completed THEN loc.lastImportDate
                                      ELSE Epoch]
  /\ changed' = FALSE
  /\ loc' = InitLoc
  /\ loading' = "none"
  /\ closeCount' = 0
  /\ notices' = <<>>
  /\ exit' = ""
  /\ openedFiles' = {}
  /\ startStore' = store
  /\ events' = {}
  /\ openFailed' = FALSE
  /\ UNCHANGED <<settings, formatArg, remote, store, dirs, runs>>
  /\ UNCHANGED rvars
  /\ UNCHANGED nvars
  /\ UNCHANGED svars

\* the user rewrites the annotation block of a document, before a further
\* run
UserEdit(path, a) ==
  /\ ipc = "idle"
  /\ runs < MaxRuns
  /\ path \in DOMAIN store
  /\ store[path].ann # a
  /\ store' = [store EXCEPT ![path].ann = a]
  /\ changed' = TRUE
  /\ UNCHANGED <<settings, formatArg, remote, dirs, openedFiles, ipc, loc,
                 loading, closeCount, notices, exit, runs, startStore, prev,
                 events, openFailed>>
  /\ UNCHANGED rvars
  /\ UNCHANGED nvars
  /\ UNCHANGED svars

\* the remote record of an item is edited, before a further run
RemoteEdit(k) ==
  /\ ipc = "idle"
  /\ runs < MaxRuns
  /\ remote[k] < MaxVer
  /\ remote' = [remote EXCEPT ![k] = @ + 1]
  /\ changed' = TRUE
  /\ UNCHANGED <<settings, formatArg, store, dirs, openedFiles, ipc, loc,
                 loading, closeCount, notices, exit, runs, startStore, prev,
                 events, openFailed>>
  /\ UNCHANGED rvars
  /\ UNCHANGED nvars
  /\ UNCHANGED svars

EmptyStore == [q \in {} |-> EmptyContent]

InitImport ==
  /\ \E c \in Configurations : settings = c[1] /\ formatArg = c[2]
  /\ remote = [k \in Items |-> 0]
  /\ store = EmptyStore
  /\ dirs = {}
  /\ openedFiles = {}
  /\ ipc = "idle"
  /\ loc = InitLoc
  /\ loading = "none"
  /\ closeCount = 0
  /\ notices = <<>>
  /\ exit = ""
  /\ runs = 0
  /\ startStore = EmptyStore
  /\ prev = NoPrev
  /\ changed = FALSE
  /\ events = {}
  /\ openFailed = FALSE

\* no import is running
ImportIdle ==
  /\ settings = BaseSettings
  /\ formatArg = NoFormat
  /\ remote = [k \in Items |-> 0]
  /\ store = EmptyStore
  /\ dirs = {}
  /\ openedFiles = {}
  /\ ipc = "idle"
  /\ loc = InitLoc
  /\ loading = "none"
  /\ closeCount = 0
  /\ notices = <<>>
  /\ exit = ""
  /\ runs = 0
  /\ startStore = EmptyStore
  /\ prev = NoPrev
  /\ changed = FALSE
  /\ events = {}
  /\ openFailed = FALSE

InitResolver ==
  /\ parent \in [Keys -> Keys \cup {NoParent}]
  /\ rpc = [i \in Invs |-> "idle"]
  /\ collectionKeys = [i \in Invs |-> <<>>]
  /\ uniqueKeys = [i \in Invs |-> <<>>]
  /\ idx = [i \in Invs |-> 1]
  /\ cache = [i \in Invs |-> EmptyMap]
  /\ inFlight = [i \in Invs |-> {}]
  /\ requests = [i \in Invs |-> Zeros]
  /\ loopInfo = [i \in Invs |-> NoInfo]
  /\ info = [i \in Invs |-> NoInfo]
  /\ cur = [i \in Invs |-> EmptyKey]
  /\ visiting = [i \in Invs |-> {}]
  /\ stack = [i \in Invs |-> <<>>]
  /\ ret = [i \in Invs |-> <<>>]
  /\ results = [i \in Invs |-> <<>>]
  /\ callFetches = [i \in Invs |-> Zeros]
  /\ nFetch = Zeros
  /\ outcome = [i \in Invs |-> NoOutcome]
  /\ overlapped = FALSE

\* no function of the normalizer applied yet
\* the promise of a selection not yet settled, the settled ones
Pending == [state |-> "pending", value |-> ""]
Fulfilled(item) == [state |-> "fulfilled", value |-> item]
Rejected(message) == [state |-> "rejected", value |-> message]
NoCalls == [resolve |-> 0, reject |-> 0, timer |-> 0]

\* no selection modal
SelectIdle ==
  /\ spc = "idle"
  /\ items = <<>>
  /\ shown = FALSE
  /\ resolved = FALSE
  /\ promise = Pending
  /\ timers = 0
  /\ task = <<>>
  /\ picked = ""
  /\ calls = NoCalls
  /\ prompts = 0

NormIdle ==
  /\ npc = "idle"
  /\ rawHit = NoRawHit
  /\ hit = NoHit
  /\ builtFor = Epoch
  /\ response = NoResponse
  /\ detailOut = NoDetail
  /\ templateOut = buildWebApiTemplateData(NoDetail, Epoch)

Init == InitResolver /\ ImportIdle /\ NormIdle /\ SelectIdle

\* the steps of invocation i other than the call itself
Step(i) ==
  \/ LoopGetInfo(i)
  \/ Return(i)
  \/ \E k \in Keys : FetchOk(i, k)
  \/ \E k \in Keys : FetchFail(i, k)
  \/ BpEnter(i)
  \/ BpGot(i)
  \/ BpReturn(i)
  \/ PushResult(i)

\* one call of the resolver
Next ==
  \/ \E keys \in SeqsUpTo(Keys \cup {EmptyKey}, MaxInput) : Call(1, keys)
  \/ Step(1)

Spec == Init /\ [][Next]_vars

\* the same, every pending step being taken eventually: each remote request
\* completes and each continuation runs
LiveSpec == Spec /\ WF_vars(Step(1))

\* two calls, one after the other or both in progress at once, each
\* resolving one key
ConcNext ==
  \/ \E i \in Invs : \E k \in Keys : Call(i, <<k>>)
  \/ \E i \in Invs : Step(i)

ConcSpec == Init /\ [][ConcNext]_vars

\* the elements a search response may hold: the cite key fields of the
\* element and of its data object, present, empty or absent
RawHits ==
  [key : {"I1"}, hasData : BOOLEAN,
   data : [citationKey : {Absent, "", "dc"}, citation_key : {Absent, "", "dh"}],
   top : [citationKey : {Absent, "tc"}, citation_key : {Absent, "th"}]]

\* the responses webApiGetItem may receive: res.getData() with its data and
\* res.raw.data; a remote record may carry a field isFirstImport of its own
Responses ==
  [key : {"I1"},
   data : [title : {"Alpha"},
           citationKey : {Absent, "", "dc"},
           citation_key : {Absent, "", "dh"},
           collections : {NoCollections, RawCollections(<<>>),
                          RawCollections(<<"A">>)},
           isFirstImport : BOOLEAN],
   rawData : [title : {"Alpha"},
              citationKey : {Absent, "rc"},
              citation_key : {Absent, "rh"},
              collections : {NoCollections, RawCollections(<<"B", EmptyKey>>)}]]

\* webApiSearchItems maps an element of the response: lines 44-62
NormalizeHit(item) ==
  /\ npc = "idle"
  /\ rawHit' = item
  /\ hit' = webApiSearchItem(item)
  /\ npc' = "hit"
  /\ UNCHANGED <<response, detailOut, builtFor, templateOut>>
  /\ UNCHANGED <<rvars, ivars>>
  /\ UNCHANGED svars

\* webApiGetItem on a response, the resolution of the collections having
\* returned or thrown: lines 76-103
NormalizeDetail(res, resolution) ==
  /\ npc = "idle"
  /\ response' = res
  /\ detailOut' = webApiGetItem(res, resolution)
  /\ npc' = "detail"
  /\ UNCHANGED <<rawHit, hit, builtFor, templateOut>>
  /\ UNCHANGED <<rvars, ivars>>
  /\ UNCHANGED svars

\* buildWebApiTemplateData on the detail record: lines 48-82
BuildTemplateData(lastImportDate) ==
  /\ npc = "detail"
  /\ builtFor' = lastImportDate
  /\ templateOut' = buildWebApiTemplateData(detailOut, lastImportDate)
  /\ npc' = "template"
  /\ UNCHANGED <<rawHit, hit, response, detailOut>>
  /\ UNCHANGED <<rvars, ivars>>
  /\ UNCHANGED svars

\* no resolver call in progress, the collections all top-level
ResolverIdle ==
  /\ parent = [k \in Keys |-> NoParent]
  /\ rpc = [i \in Invs |-> "idle"]
  /\ collectionKeys = [i \in Invs |-> <<>>]
  /\ uniqueKeys = [i \in Invs |-> <<>>]
  /\ idx = [i \in Invs |-> 1]
  /\ cache = [i \in Invs |-> EmptyMap]
  /\ inFlight = [i \in Invs |-> {}]
  /\ requests = [i \in Invs |-> Zeros]
  /\ loopInfo = [i \in Invs |-> NoInfo]
  /\ info = [i \in Invs |-> NoInfo]
  /\ cur = [i \in Invs |-> EmptyKey]
  /\ visiting = [i \in Invs |-> {}]
  /\ stack = [i \in Invs |-> <<>>]
  /\ ret = [i \in Invs |-> <<>>]
  /\ results = [i \in Invs |-> <<>>]
  /\ callFetches = [i \in Invs |-> Zeros]
  /\ nFetch = Zeros
  /\ outcome = [i \in Invs |-> NoOutcome]
  /\ overlapped = FALSE

ImportInit == ResolverIdle /\ InitImport /\ NormIdle /\ SelectIdle

NormInit == ResolverIdle /\ ImportIdle /\ NormIdle /\ SelectIdle

NormNext ==
  \/ \E item \in RawHits : NormalizeHit(item)
  \/ \E res \in Responses : \E resolution \in {"ok", "threw"} :
       NormalizeDetail(res, resolution)
  \/ \E lastImportDate \in Epoch..MaxRuns : BuildTemplateData(lastImportDate)

\* the normalizer and the template input builder applied to one response
NormSpec == NormInit /\ [][NormNext]_vars

\* runs of runWebApiImport, one after the other, and the edits between them
ImportNext ==
  \/ Start
  \/ \E input \in PromptInputs : PromptDone(input)
  \/ SearchFails
  \/ \E res \in SearchResultLists : SearchDone(res)
  \/ \E j \in 1..2 : Select(j)
  \/ Cancel
  \/ GetItem
  \/ ComputePath
  \/ ReadExisting
  \/ Render
  \/ Write
  \/ OpenNote
  \/ Finally
  \/ Returned
  \/ \E path \in DOMAIN store : \E a \in Annots : UserEdit(path, a)
  \/ \E k \in Items : RemoteEdit(k)

ImportSpec == ImportInit /\ [][ImportNext]_vars

(***************************************************************************)
(* promptForWebApiItemSelection and WebApiItemSuggestModal.  The host runs *)
(* its handlers one task at a time: the callbacks a handler makes run      *)
(* within its task, and a callback of window.setTimeout runs in a task of  *)
(* its own, after the task that set it.  When the user picks an item the   *)
(* host closes the modal and calls onChooseSuggestion in the same task, in *)
(* one order or the other; when the user dismisses the modal it closes it. *)
(* One modal is followed until its timers have run.                        *)
(***************************************************************************)
\* the lists of items a modal is given: the candidates of line 137
ItemLists == {<<"I1">>, <<"I2">>, <<"I1", "I2">>, <<"I2", "I1">>}

\* the orders in which the host calls close() and onChooseSuggestion when an
\* item is picked; onChooseSuggestion closes the modal itself
PickOrders == {<<"close", "choose">>, <<"choose">>, <<"choose", "close">>}

\* resolve and reject of a promise: the first call settles it, a later call
\* has no effect
Settle(p, settled) == IF p.state = "pending" THEN settled ELSE p

\* a timer callback that rejects whatever the field says
TimerSeesResolvedNever == FALSE

\* `if (this.resolved) return;` in the callback of the timer, line 139
TimerSeesResolved == resolved

\* onClose, lines 136-142, the field being res: the timers after it
onClose(res, t) == IF res THEN t ELSE t + 1

\* promptForWebApiItemSelection(app, title, items), lines 145-160: the
\* promise, the modal and modal.open()
Prompt(its) ==
  /\ spc = "idle"
  /\ prompts < MaxRuns
  /\ prompts' = prompts + 1
  /\ spc' = "prompted"
  /\ items' = its
  /\ shown' = TRUE
  /\ resolved' = FALSE
  /\ promise' = Pending
  /\ timers' = 0
  /\ task' = <<>>
  /\ picked' = ""
  /\ calls' = NoCalls
  /\ UNCHANGED <<rvars, ivars, nvars>>

\* the user picks the j-th item: the host begins the task that closes the
\* modal and calls onChooseSuggestion
UserPicks(j, order) ==
  /\ spc = "prompted"
  /\ shown
  /\ task = <<>>
  /\ j \in 1..Len(items)
  /\ picked' = items[j]
  /\ task' = order
  /\ UNCHANGED <<spc, items, shown, resolved, promise, timers, calls, prompts>>
  /\ UNCHANGED <<rvars, ivars, nvars>>

\* the user dismisses the modal: the host begins the task that closes it
UserDismisses ==
  /\ spc = "prompted"
  /\ shown
  /\ task = <<>>
  /\ task' = <<"close">>
  /\ UNCHANGED <<spc, items, shown, resolved, promise, timers, picked, calls,
                 prompts>>
  /\ UNCHANGED <<rvars, ivars, nvars>>

\* the host calls close(): the modal is closed and onClose runs, lines
\* 136-142; on a modal that is closed already the host may call onClose
\* again or not
HostClose(again) ==
  /\ task # <<>>
  /\ Head(task) = "close"
  /\ task' = Tail(task)
  /\ shown' = FALSE
  /\ timers' = IF shown \/ again THEN onClose(resolved, timers) ELSE timers
  /\ UNCHANGED <<spc, items, resolved, promise, picked, calls, prompts>>
  /\ UNCHANGED <<rvars, ivars, nvars>>

\* the host calls onChooseSuggestion(item), lines 127-134: the field, the
\* call of resolve, and this.close() with its onClose
OnChooseSuggestion(again) ==
  /\ task # <<>>
  /\ Head(task) = "choose"
  /\ task' = Tail(task)
  /\ resolved' = TRUE
  /\ promise' = Settle(promise, Fulfilled(picked))
  /\ calls' = [calls EXCEPT !.resolve = @ + 1]
  /\ shown' = FALSE
  /\ timers' = IF shown \/ again THEN onClose(TRUE, timers) ELSE timers
  /\ UNCHANGED <<spc, items, picked, prompts>>
  /\ UNCHANGED <<rvars, ivars, nvars>>

\* the callback of window.setTimeout(..., 1) runs, lines 138-141
TimerFires ==
  /\ task = <<>>
  /\ timers > 0
  /\ timers' = timers - 1
  /\ IF TimerSeesResolved
     THEN /\ calls' = [calls EXCEPT !.timer = @ + 1]
          /\ UNCHANGED promise
     ELSE /\ calls' = [calls EXCEPT !.timer = @ + 1, !.reject = @ + 1]
          /\ promise' = Settle(promise, Rejected("Selection cancelled."))
  /\ UNCHANGED <<spc, items, shown, resolved, picked, task, prompts>>
  /\ UNCHANGED <<rvars, ivars, nvars>>

\* the promise is settled and the modal has nothing left to run: the caller
\* of promptForWebApiItemSelection has gone on, a further modal may be opened
SelectionOver ==
  /\ spc = "prompted"
  /\ promise.state # "pending"
  /\ task = <<>>
  /\ timers = 0
  /\ spc' = "idle"
  /\ items' = <<>>
  /\ shown' = FALSE
  /\ resolved' = FALSE
  /\ promise' = Pending
  /\ picked' = ""
  /\ calls' = NoCalls
  /\ UNCHANGED <<timers, task, prompts>>
  /\ UNCHANGED <<rvars, ivars, nvars>>

SelectInit == ResolverIdle /\ ImportIdle /\ NormIdle /\ SelectIdle

SelectNext ==
  \/ \E its \in ItemLists : Prompt(its)
  \/ \E j \in 1..2 : \E order \in PickOrders : UserPicks(j, order)
  \/ UserDismisses
  \/ \E again \in BOOLEAN : HostClose(again)
  \/ \E again \in BOOLEAN : OnChooseSuggestion(again)
  \/ TimerFires
  \/ SelectionOver

\* selection modals, one after the other
SelectSpec == SelectInit /\ [][SelectNext]_vars

(***************************************************************************)
(* Properties of the resolver.                                             *)
(***************************************************************************)
Finished(i) == rpc[i] \in {"returned", "threw"}

\* the keys from a root down to k, when following parentCollection from k
\* reaches a root
IsChain(s, k) ==
  /\ s # <<>>
  /\ s[Len(s)] = k
  /\ parent[s[1]] = NoParent
  /\ \A j \in 1..(Len(s) - 1) : parent[s[j + 1]] = s[j]

HasChain(k) == \E s \in SeqsUpTo(Keys, Cardinality(Keys)) : IsChain(s, k)

AncestorChain(k) ==
  CHOOSE s \in SeqsUpTo(Keys, Cardinality(Keys)) : IsChain(s, k)

Acyclic == \A k \in Keys : HasChain(k)

RECURSIVE JoinNames(_)
\* the names of the collections of s joined by '/'
JoinNames(s) ==
  IF Len(s) = 1 THEN <<extractCollectionInfo(s[1]).name>>
  ELSE JoinNames(SubSeq(s, 1, Len(s) - 1))
         \o <<Slash>> \o <<extractCollectionInfo(s[Len(s)]).name>>

ResultKeys(i) == [j \in 1..Len(results[i]) |-> results[i][j].key]

\* C1: in a hierarchy without a cycle, every result pushed so far has as
\* fullPath the names of its key's ancestors from the root down to the key
\* itself, joined by '/', and a call that returns has a result for every
\* requested key
C1_FullPathIsRootToLeaf ==
  \A i \in Invs :
    Acyclic =>
      /\ \A j \in 1..Len(results[i]) :
           results[i][j].fullPath = JoinNames(AncestorChain(results[i][j].key))
      /\ rpc[i] = "returned" => ResultKeys(i) = uniqueKeys[i]

\* C1 witness: B is resolved under the root A, as 'alpha/beta', and C three
\* levels deep
C1_Witness ==
  /\ rpc[1] = "returned"
  /\ parent = [k \in Keys |-> CASE k = "A" -> NoParent
                                [] k = "B" -> "A"
                                [] OTHER -> "B"]
  /\ Len(results[1]) = 2
  /\ results[1][1].fullPath = <<"alpha", "/", "beta">>
  /\ results[1][2].fullPath = <<"alpha", "/", "beta", "/", "C">>

\* C2: whatever the hierarchy, cyclic ones included, a call in progress ends
\* (it returns, or rethrows a failed fetch) once every remote request
\* completes, and every path it has built is finite: at most one segment per
\* collection plus the key that closes a cycle
C2_Terminates ==
  /\ \A i \in Invs : (rpc[i] # "idle") ~> Finished(i)
  /\ [](\A i \in Invs : \A j \in 1..Len(results[i]) :
          Len(results[i][j].fullPath) <= 2 * (Cardinality(Keys) + 1) - 1)

\* C2 witness: A and B are each other's parent and the call for A returned
C2_Witness ==
  /\ rpc[1] = "returned"
  /\ parent["A"] = "B"
  /\ parent["B"] = "A"
  /\ Len(results[1]) = 1
  /\ results[1][1].key = "A"
  /\ callFetches[1]["A"] = 1

\* C3 as stated: when the resolver is called twice, the second call
\* beginning after the first has ended, at most one remote request per
\* collection is issued over both calls
C3_OneFetchOverAllCalls == ~overlapped => \A k \in Keys : nFetch[k] <= 1

\* C3 amended: one call issues at most one remote request per collection,
\* and what it has cached it does not request again
C3_OneFetchPerCall ==
  \A i \in Invs : \A k \in Keys :
    /\ callFetches[i][k] <= 1
    /\ CacheHas(i, k) => callFetches[i][k] = 1 /\ requests[i][k] = 0

\* C3 witness: two calls, one after the other, for B under the root A; each
\* asked getInfo for B twice and fetched B and A once
C3_Witness ==
  /\ ~overlapped
  /\ rpc[1] = "returned"
  /\ rpc[2] = "returned"
  /\ parent["B"] = "A"
  /\ parent["A"] = NoParent
  /\ \A i \in Invs :
       /\ collectionKeys[i] = <<"B">>
       /\ callFetches[i]["B"] = 1
       /\ callFetches[i]["A"] = 1
  /\ nFetch["B"] = 2

\* C4 as stated: no second remote request for a key is issued while one is
\* outstanding, also when two invocations overlap
C4_NoDuplicateRequest ==
  \A k \in Keys : requests[1][k] + requests[2][k] <= 1

\* C4 amended: within one invocation a key has at most one outstanding
\* remote request, and the invocation's inFlight map holds exactly the keys
\* with one
C4_OneInFlightPerInvocation ==
  \A i \in Invs : \A k \in Keys :
    /\ requests[i][k] <= 1
    /\ InFlightHas(i, k) <=> requests[i][k] = 1

\* C4 witness: both invocations have their own request for A outstanding
C4_Witness ==
  /\ requests[1]["A"] = 1
  /\ requests[2]["A"] = 1
  /\ InFlightHas(1, "A")
  /\ InFlightHas(2, "A")

RECURSIVE Dedup(_)
\* the first occurrence of every element, in order
Dedup(s) ==
  IF s = <<>> THEN <<>>
  ELSE LET d == Dedup(SubSeq(s, 1, Len(s) - 1))
           x == s[Len(s)]
       IN IF \E j \in 1..Len(d) : d[j] = x THEN d ELSE Append(d, x)

\* C5: a call that returns gives one result per distinct non-empty input
\* key, in the order of the de-duplicated input
C5_OneResultPerDistinctKey ==
  \A i \in Invs :
    rpc[i] = "returned" => ResultKeys(i) = Dedup(FilterTruthy(collectionKeys[i]))

RECURSIVE CyclePath(_, _)
\* the path of k: the names from k upwards, written root first, below the
\* root's name or below the key of the first collection met twice
CyclePath(k, seen) ==
  IF k \in seen THEN <<k>>
  ELSE IF parent[k] = NoParent THEN <<extractCollectionInfo(k).name>>
  ELSE CyclePath(parent[k], seen \cup {k})
         \o <<Slash, extractCollectionInfo(k).name>>

\* C19: the path of a key whose ancestors run into a cycle starts with the
\* key of the first collection met twice, followed by the names met on the
\* way, the requested one last; for A -> B -> A resolving A gives
\* 'A/beta/alpha'; and no collection is requested twice on the way
C19_CyclePathDeterministic ==
  \A i \in Invs :
    /\ \A j \in 1..Len(results[i]) :
         LET r == results[i][j] IN
           /\ ~HasChain(r.key) => r.fullPath = CyclePath(r.key, {})
           /\ r.key = "A" /\ parent["A"] = "B" /\ parent["B"] = "A" =>
                r.fullPath = <<"A", Slash, "beta", Slash, "alpha">>
           /\ r.key = "C" /\ parent["C"] = "C" => r.fullPath = <<"C", Slash, "C">>
    /\ \A k \in Keys : callFetches[i][k] <= 1

\* C19 witness: A and B are each other's parent and the call for A returned
\* 'A/beta/alpha', having fetched A and B once each
C19_Witness ==
  /\ rpc[1] = "returned"
  /\ collectionKeys[1] = <<"A">>
  /\ parent["A"] = "B"
  /\ parent["B"] = "A"
  /\ results[1][1].fullPath = <<"A", Slash, "beta", Slash, "alpha">>
  /\ callFetches[1] = [k \in Keys |-> IF k = "C" THEN 0 ELSE 1]


C17_FirstImportIffEpoch ==
  npc = "template" =>
    /\ templateOut.isFirstImport <=> builtFor = Epoch
    /\ templateOut.lastImportDate = builtFor
    /\ templateOut.lastExportDate = builtFor

\* C17 witness: the record carries isFirstImport = true and the template
\* data, built for a later date, says false
C17_Witness ==
  /\ npc = "template"
  /\ response.data.isFirstImport
  /\ detailOut.data.isFirstImport
  /\ builtFor = 2
  /\ ~templateOut.isFirstImport

\* C18: the cite key derived from a detail record is the first truthy
\* of data.citationKey, data['citation-key'], rawData.citationKey and
\* rawData['citation-key']; so the 'citation-key' of data wins over a
\* citationKey that only the raw data has
C18_DetailCiteKeyOrder ==
  npc \in {"detail", "template"} =>
    LET data == response.data
        rawData == response.rawData
        expected == Or(Or(Or(data.citationKey, data.citation_key),
                          rawData.citationKey), rawData.citation_key)
    IN Truthy(expected) => templateCitekey(detailOut) = expected

(***************************************************************************)
(* Properties of the import orchestrator.                                  *)
(***************************************************************************)
\* the run has written its document
Written == ipc = "open" \/ (ipc \in {"finally", "done"} /\ exit = "imported")

\* C6: a re-import over an existing document hands the render step the
\* annotation block of that document as it was when the run began, and the
\* document it writes carries the record as it is now on the remote, the
\* date of this import and the same annotation block
C6_AnnotationsPreserved ==
  /\ ipc \in {"render", "write"} /\ loc.existingFile =>
       loc.existingAnnotations = getExistingAnnotations(startStore[loc.markdownPath])
  /\ Written /\ loc.existingFile =>
       /\ store[loc.markdownPath].ann = startStore[loc.markdownPath].ann
       /\ store[loc.markdownPath].title = Title(loc.selected, remote[loc.selected])
       /\ store[loc.markdownPath].date = runs

\* C6 witness: the record was edited on the remote and the user had added an
\* annotation block; the re-import changed the title and kept the block
C6_Witness ==
  /\ ipc = "done"
  /\ exit = "imported"
  /\ loc.existingFile
  /\ startStore[loc.markdownPath].ann = "my annotation"
  /\ store[loc.markdownPath].ann = "my annotation"
  /\ startStore[loc.markdownPath].title = "Alpha"
  /\ store[loc.markdownPath].title = "Alpha (2nd ed.)"

\* two documents that differ at most in their import date
SameButDate(d, e) == d.title = e.title /\ d.first = e.first /\ d.ann = e.ann

\* the run that has ended follows a completed run for the same item, with no
\* edit of the remote record or of a document in between
SecondOfTwoRuns ==
  /\ ipc = "done"
  /\ Completed
  /\ prev.ok
  /\ ~changed
  /\ prev.item = loc.detail.key

\* C7 as stated: the second of two runs in succession leaves the document
\* as the first left it, but for the import date
C7_SecondRunIdentical ==
  SecondOfTwoRuns /\ loc.markdownPath \in DOMAIN store =>
    SameButDate(store[loc.markdownPath], prev.doc)

\* C7 amended: the same, when the document carried an import date already
\* before the first of the two runs, so that both are re-imports
C7_ReimportIdentical ==
  SecondOfTwoRuns /\ prev.lastImportDate # Epoch =>
    /\ loc.markdownPath = prev.path
    /\ SameButDate(store[loc.markdownPath], prev.doc)

\* C7 witness: the third import in a row with a template that reads
\* isFirstImport: the document of the second with a new date
C7_Witness ==
  /\ SecondOfTwoRuns
  /\ exit = "imported"
  /\ prev.lastImportDate # Epoch
  /\ loc.resolvedFormat = FmtFirst
  /\ store[loc.markdownPath].first = "update"
  /\ store[loc.markdownPath].date = prev.doc.date + 1

\* C8: the target path is the one the previous run computed for the same
\* remote record, whatever the vault held then and holds now, and the
\* content is rendered against the import date of the document at that path,
\* or the epoch when there is none
C8_PathIndependentOfHistory ==
  /\ /\ loc.markdownPath # NoPath
     /\ prev.path # NoPath
     /\ prev.item = loc.detail.key
     /\ prev.title = loc.detail.data.title
     => loc.markdownPath = prev.path
  /\ ipc \in {"render", "write"} =>
       loc.lastImportDate =
         IF loc.markdownPath \in DOMAIN store
         THEN store[loc.markdownPath].date ELSE Epoch

\* C8 witness: the path template reads lastImportDate; the previous run
\* found no document, this one finds at the same path a document with an
\* import date and an annotation block of the user
C8_Witness ==
  /\ ipc = "render"
  /\ loc.resolvedFormat.path = "byDate"
  /\ prev.ok
  /\ prev.lastImportDate = Epoch
  /\ prev.path = loc.markdownPath
  /\ loc.existingFile
  /\ loc.lastImportDate # Epoch
  /\ loc.existingContent.ann = "my annotation"

\* C9: the loading modal is closed at most once, and a run that opened it
\* has closed it exactly once when it ends
C9_LoadingClosedOnce ==
  /\ closeCount <= 1
  /\ loading = "open" => closeCount = 0
  /\ ipc = "done" /\ loading # "none" => loading = "closed" /\ closeCount = 1

\* C9 witness: a run that failed after the selection, the modal closed once
C9_Witness ==
  /\ ipc = "done"
  /\ exit = "failed"
  /\ loc.selected # ""
  /\ loading = "closed"
  /\ closeCount = 1

\* C10: a run that ends otherwise than with the Notice of success has left
\* the vault as it found it
C10_FailureLeavesStoreUnchanged ==
  ipc = "done" /\ exit # "imported" => store = startStore

\* the remote calls a run may issue
RemoteCalls == {"search", "item", "notes", "collections", "collections failed"}

\* C11: when the resolution of the selected item's collections fails,
\* webApiGetItem still returns the detail record, and the record goes on with
\* an empty collection list
C11_ResolutionFailureEmptyList ==
  "collections failed" \in events =>
    /\ loc.detail # NoDetail
    /\ ipc \in {"path", "read", "render", "write", "open", "finally", "done"}
    /\ loc.detail.data.collections.keys = <<>>

\* C12: a run that ends with a configuration error has issued no remote
\* call and has written nothing
C12_ConfigurationErrorBeforeAnyCall ==
  exit = "configuration" =>
    /\ Len(notices) = 1
    /\ events \cap RemoteCalls = {}
    /\ store = startStore

\* C13: a cancelled selection ends the run with no Notice at all, no detail
\* fetched and nothing written; a run that failed shows the failure Notice
\* and no other
C13_CancellationIsSilent ==
  /\ exit = "cancelled" =>
       /\ notices = <<>>
       /\ events = {"search", "select prompt"}
       /\ loc.detail = NoDetail
       /\ store = startStore
  /\ exit = "failed" => notices = <<"Web API search failed">>

\* C13 witness: the selection prompt was shown and dismissed, the run is
\* over
C13_Witness ==
  /\ ipc = "done"
  /\ exit = "cancelled"
  /\ "select prompt" \in events
  /\ loading = "closed"
  /\ notices = <<>>

\* C14: when openFile rejects, the run still ends as an import: the Notice
\* of success and no other, the document written
C14_OpenFailureNonFatal ==
  ipc = "done" /\ openFailed =>
    /\ exit = "imported"
    /\ notices = <<"Imported 1 item">>
    /\ store[loc.markdownPath] = loc.rendered

\* nothing typed but blanks, or the prompt dismissed
IsBlank(input) ==
  input = Dismissed \/ \A j \in 1..Len(input) : input[j] = " "

\* C15: when the search prompt is dismissed or closed with nothing but
\* blanks typed, the run ends at once: no remote call, no loading modal, no
\* Notice, nothing written; the api key is only looked at, and a search only
\* issued, for a term with a character other than a blank
C15_BlankTermShortCircuits ==
  /\ exit = "no term" =>
       /\ ipc = "done"
       /\ IsBlank(loc.input)
       /\ events = {}
       /\ loading = "none"
       /\ notices = <<>>
       /\ store = startStore
  /\ ipc = "search" =>
       /\ ~IsBlank(loc.input)
       /\ ~IsBlank(loc.term)
       /\ loc.term = TrimEnd(TrimStart(loc.input))
  /\ "Web API key is not set" \in {notices[j] : j \in 1..Len(notices)} =>
       ~IsBlank(loc.input)

\* C15 witness: two blanks typed, the run over without a search
C15_Witness ==
  /\ ipc = "done"
  /\ exit = "no term"
  /\ loc.input = <<" ", " ">>
  /\ events = {}
  /\ loading = "none"

IsCandidate(k) == itemType(k) # "attachment"

\* C20: the selection prompt is shown the search results without the
\* attachments, in their order, and never an empty list; when nothing is left
\* the run ends with 'No items found', having issued the search and nothing
\* else
C20_AttachmentsFiltered ==
  /\ ipc = "select" =>
       /\ loc.candidates = SelectSeq(loc.results, IsCandidate)
       /\ loc.candidates # <<>>
  /\ exit = "no items" =>
       /\ SelectSeq(loc.results, IsCandidate) = <<>>
       /\ notices = <<"No items found">>
       /\ events = {"search"}
       /\ loc.detail = NoDetail
       /\ store = startStore

\* C20 witness: the search found an attachment and nothing else; the run is
\* over with 'No items found'
C20_Witness ==
  /\ ipc = "done"
  /\ exit = "no items"
  /\ loc.results = <<AttachmentItem>>
  /\ notices = <<"No items found">>

(***************************************************************************)
(* C21: when the render step yields no content, the run goes to its end    *)
(* without any write: after a render that gave no content the run leaves   *)
(* through "nothing rendered", the vault is what it was when the run       *)
(* began, neither mkMDDir, vault.create nor vault.modify was called, no    *)
(* document was opened and no notice, of success or of failure, was shown. *)
(***************************************************************************)
C21_EmptyRenderWritesNothing ==
  ("render" \in events /\ loc.rendered = EmptyContent) =>
    /\ ipc \in {"finally", "done"}
    /\ exit = "nothing rendered"
    /\ store = startStore
    /\ events \cap {"mkdir", "create", "modify"} = {}
    /\ openedFiles = {}
    /\ notices = <<>>

\* a first import whose template rendered nothing, with a setting that asks
\* for the note to be opened, has returned: no document exists at its path
C21_Witness ==
  /\ ipc = "done"
  /\ exit = "nothing rendered"
  /\ "render" \in events
  /\ ~loc.existingFile
  /\ loc.markdownPath \notin DOMAIN store
  /\ settings.openNoteAfterImport

(***************************************************************************)
(* C22: the promise of promptForWebApiItemSelection is settled once,       *)
(* whatever the order of the close callback, the choose callback and the   *)
(* deferred timer: resolve and reject are called once between them; when   *)
(* the user picked an item reject is never called and the promise, once    *)
(* settled, is fulfilled with that item, also when onClose ran before      *)
(* onChooseSuggestion; and when the modal is closed with nothing left to   *)
(* run the promise is settled, rejected with 'Selection cancelled.' if no  *)
(* item was picked.                                                        *)
(***************************************************************************)
C22_SelectionSettledOnce ==
  /\ calls.resolve + calls.reject <= 1
  /\ picked # "" =>
       /\ calls.reject = 0
       /\ promise \in {Pending, Fulfilled(picked)}
  /\ (spc = "prompted" /\ ~shown /\ task = <<>> /\ timers = 0) =>
       /\ calls.resolve + calls.reject = 1
       /\ promise = IF picked = "" THEN Rejected("Selection cancelled.")
                    ELSE Fulfilled(picked)

\* the user picked the second item of two, onClose ran before
\* onChooseSuggestion and set the timer, and the timer's callback has run:
\* the promise is fulfilled with the item
C22_Witness ==
  /\ Len(items) = 2
  /\ picked = items[2]
  /\ calls = [resolve |-> 1, reject |-> 0, timer |-> 1]
  /\ timers = 0
  /\ promise = Fulfilled(picked)

(***************************************************************************)
(* C23: the inFlight map holds a key exactly while the request for it is   *)
(* outstanding, one request at most; a key whose request failed is not in  *)
(* the cache; every entry of the cache is the record of a request of this  *)
(* call that succeeded; and when buildCollectionsWithFullPath has returned *)
(* or thrown the inFlight map is empty.                                    *)
(***************************************************************************)
C23_InFlightOnlyWhileOutstanding ==
  \A i \in Invs :
    /\ \A k \in Keys :
         /\ k \in inFlight[i] <=> requests[i][k] > 0
         /\ requests[i][k] <= 1
         /\ outcome[i][k] = "failed" => k \notin DOMAIN cache[i]
         /\ k \in DOMAIN cache[i] =>
              /\ outcome[i][k] = "ok"
              /\ cache[i][k] = extractCollectionInfo(k)
    /\ rpc[i] \in {"returned", "threw"} => inFlight[i] = {}

\* the call has thrown: the request for one key had succeeded and is cached,
\* the request for another failed, and the inFlight map is empty
C23_Witness ==
  /\ rpc[1] = "threw"
  /\ inFlight[1] = {}
  /\ \E k, h \in Keys :
       /\ outcome[1][k] = "ok"
       /\ k \in DOMAIN cache[1]
       /\ outcome[1][h] = "failed"
       /\ h \notin DOMAIN cache[1]

====
